---- MODULE Spec2Model ----
(***************************************************************************)
(* Model of the Spaceship.dev MCP server (src/src/index.ts): the           *)
(* SpaceshipClient gateway and the four request handlers registered on the *)
(* MCP server (list-resources, read-resource, list-tools, call-tool).      *)
(*                                                                         *)
(* JavaScript values are tagged records.  Strings are atomic, except the   *)
(* three kinds of text the handlers take apart or put together: resource   *)
(* URIs (sequences of tokens, the delimiters ":" and "/" being tokens of   *)
(* their own), error messages (the sequence of the parts of the template   *)
(* literal) and JSON text (a sequence of JSON tokens).                     *)
(***************************************************************************)
EXTENDS Integers, Sequences, FiniteSets, TLC

(***************************************************************************)
(* Bounds of the model.                                                    *)
(***************************************************************************)
MaxDomains == 2    \* longest domain list an upstream body carries
MaxPage == 2       \* largest take / skip value a host sends
MaxSegs == 2       \* most path words in a resource URI the host sends

(***************************************************************************)
(* JavaScript values.                                                      *)
(***************************************************************************)
Undef == [t |-> "undefined"]
Null == [t |-> "null"]
NaN == [t |-> "NaN"]
Str(s) == [t |-> "string", v |-> s]
Num(n) == [t |-> "number", v |-> n]
Bool(b) == [t |-> "boolean", v |-> b]
Arr(items) == [t |-> "array", v |-> items]
Obj(props) == [t |-> "object", v |-> props]
Prop(key, val) == [k |-> key, v |-> val]

Range(s) == {s[i] : i \in 1..Len(s)}

\* x.key for a value x that is neither null nor undefined: the property of an
\* object, undefined on a primitive or when the object has no such property.
Get(x, key) ==
  IF x.t = "object" /\ \E i \in 1..Len(x.v) : x.v[i].k = key
  THEN x.v[CHOOSE i \in 1..Len(x.v) : x.v[i].k = key].v
  ELSE Undef

Nullish(x) == x.t \in {"undefined", "null"}

\* x?.key
OptGet(x, key) == IF Nullish(x) THEN Undef ELSE Get(x, key)

\* The truthiness of a value (!x, x || y).
Truthy(x) ==
  CASE x.t \in {"undefined", "null", "NaN"} -> FALSE
    [] x.t = "string" -> x.v # ""
    [] x.t = "number" -> x.v # 0
    [] x.t = "boolean" -> x.v
    [] OTHER -> TRUE

Digits == <<"0", "1", "2", "3", "4", "5", "6", "7", "8", "9">>

RECURSIVE NatStr(_)
NatStr(n) == IF n < 10 THEN Digits[n + 1] ELSE NatStr(n \div 10) \o Digits[(n % 10) + 1]

\* String(x), also the conversion a template literal `${x}` applies.  An
\* array gives its elements, null and undefined ones as "", joined by ",".
RECURSIVE String(_), JoinItems(_, _)
String(x) ==
  CASE x.t = "undefined" -> "undefined"
    [] x.t = "null" -> "null"
    [] x.t = "NaN" -> "NaN"
    [] x.t = "string" -> x.v
    [] x.t = "number" -> IF x.v < 0 THEN "-" \o NatStr(0 - x.v) ELSE NatStr(x.v)
    [] x.t = "boolean" -> IF x.v THEN "true" ELSE "false"
    [] x.t = "array" -> JoinItems(x.v, 1)
    [] OTHER -> "[object Object]"

JoinItems(items, i) ==
  IF i > Len(items) THEN ""
  ELSE (IF i > 1 THEN "," ELSE "")
         \o (IF Nullish(items[i]) THEN "" ELSE String(items[i]))
         \o JoinItems(items, i + 1)

\* The numerals among the strings of the model: the decimal strings of 0..99.
Numerals == 0..99

\* Number(s) for a string: 0 for the empty string, the value of a numeral,
\* NaN for the other strings of the model.
StringToNumber(s) ==
  IF s = "" THEN Num(0)
  ELSE IF \E n \in Numerals : NatStr(n) = s
       THEN Num(CHOOSE n \in Numerals : NatStr(n) = s)
       ELSE NaN

\* Number(x); an array or object is converted by way of its string.
Number(x) ==
  CASE x.t = "undefined" -> NaN
    [] x.t = "null" -> Num(0)
    [] x.t \in {"number", "NaN"} -> x
    [] x.t = "boolean" -> IF x.v THEN Num(1) ELSE Num(0)
    [] x.t = "string" -> StringToNumber(x.v)
    [] OTHER -> StringToNumber(String(x))

\* a || b
OrElse(a, b) == IF Truthy(a) THEN a ELSE b

(***************************************************************************)
(* JSON text: JSON.stringify(value, null, 2).  A JSON text is a sequence   *)
(* of tokens; Newline(d) is a line break followed by the 2 * d spaces of   *)
(* indentation level d.                                                    *)
(***************************************************************************)
Punct(s) == [k |-> "punct", s |-> s]
Quoted(s) == [k |-> "string", s |-> s]
Numeral(n) == [k |-> "number", n |-> n]
Literal(s) == [k |-> "literal", s |-> s]
Newline(d) == [k |-> "newline", n |-> d]
Space == [k |-> "space"]

\* The own enumerable properties JSON.stringify keeps: those whose value is
\* not undefined.
RECURSIVE Defined(_)
Defined(props) ==
  IF props = <<>> THEN <<>>
  ELSE IF Head(props).v.t = "undefined" THEN Defined(Tail(props))
       ELSE <<Head(props)>> \o Defined(Tail(props))

RECURSIVE Ser(_, _), SerItems(_, _, _), SerProps(_, _, _)
Ser(x, depth) ==
  CASE x.t \in {"null", "NaN", "undefined"} -> <<Literal("null")>>
    [] x.t = "boolean" -> <<Literal(IF x.v THEN "true" ELSE "false")>>
    [] x.t = "number" -> <<Numeral(x.v)>>
    [] x.t = "string" -> <<Quoted(x.v)>>
    [] x.t = "array" ->
         IF x.v = <<>> THEN <<Punct("["), Punct("]")>>
         ELSE <<Punct("[")>> \o SerItems(x.v, 1, depth + 1)
                \o <<Newline(depth), Punct("]")>>
    [] OTHER ->
         IF Defined(x.v) = <<>> THEN <<Punct("{"), Punct("}")>>
         ELSE <<Punct("{")>> \o SerProps(Defined(x.v), 1, depth + 1)
                \o <<Newline(depth), Punct("}")>>

SerItems(items, i, depth) ==
  IF i > Len(items) THEN <<>>
  ELSE (IF i > 1 THEN <<Punct(",")>> ELSE <<>>)
         \o <<Newline(depth)>> \o Ser(items[i], depth)
         \o SerItems(items, i + 1, depth)

SerProps(props, i, depth) ==
  IF i > Len(props) THEN <<>>
  ELSE (IF i > 1 THEN <<Punct(",")>> ELSE <<>>)
         \o <<Newline(depth), Quoted(props[i].k), Punct(":"), Space>>
         \o Ser(props[i].v, depth)
         \o SerProps(props, i + 1, depth)

\* A JavaScript string holding JSON text.
Text(toks) == [t |-> "text", v |-> toks]

\* JSON.stringify(x, null, 2): undefined for undefined, else the text.
JSONstringify(x) == IF x.t = "undefined" THEN Undef ELSE Text(Ser(x, 0))

(***************************************************************************)
(* Resource URIs and new URL(uri).  A URI is a sequence of tokens: the     *)
(* delimiters ":" and "/" and words, a word being a non-empty run of       *)
(* characters that holds no delimiter and nothing the URL parser encodes   *)
(* or rejects.  UriWords are the words the host of the model uses.         *)
(***************************************************************************)
UriWords == {"spaceship", "SPACESHIP", "http", "domains", "example.com", "a.io", "443"}

\* Words that read as a URL scheme (a letter, then letters, digits, +, -, .).
SchemeWords == UriWords \ {"443"}

\* Words made of digits only: what a port may be.
DigitWords == {"443"}

\* The parser lower-cases the scheme; the other words of the model hold no
\* upper-case letter.
LowerCase(w) == IF w = "SPACESHIP" THEN "spaceship" ELSE w

SpecialSchemes == {"http", "https", "ws", "wss", "ftp", "file"}

RECURSIVE DropSlashes(_)
DropSlashes(toks) ==
  IF toks # <<>> /\ Head(toks) = "/" THEN DropSlashes(Tail(toks)) ELSE toks

RECURSIVE UpToSlash(_)
UpToSlash(toks) ==
  IF toks = <<>> \/ Head(toks) = "/" THEN <<>>
  ELSE <<Head(toks)>> \o UpToSlash(Tail(toks))

\* host, host ":" or host ":" port; an empty authority only where the scheme
\* allows an empty host.
ValidAuthority(auth, emptyHost) ==
  \/ auth = <<>> /\ emptyHost
  \/ Len(auth) = 1 /\ auth[1] # ":"
  \/ Len(auth) = 2 /\ auth[1] # ":" /\ auth[2] = ":"
  \/ Len(auth) = 3 /\ auth[1] # ":" /\ auth[2] = ":" /\ auth[3] \in DigitWords

URL(protocol, host, pathname) ==
  [ok |-> TRUE, protocol |-> protocol, host |-> host, pathname |-> pathname]
InvalidURL == [ok |-> FALSE, protocol |-> "", host |-> <<>>, pathname |-> <<>>]

\* new URL(uri) with no base, by the URL standard's state machine: a scheme
\* and ":" are required; after "//" comes an authority, and what follows it
\* is the path; without "//" a non-special scheme takes the rest as its path.
ParseURL(uri) ==
  IF Len(uri) < 2 \/ uri[1] \notin SchemeWords \/ uri[2] # ":" THEN InvalidURL
  ELSE LET scheme == LowerCase(uri[1])
           rest == SubSeq(uri, 3, Len(uri))
           special == scheme \in SpecialSchemes
           slashes == Len(rest) >= 2 /\ rest[1] = "/" /\ rest[2] = "/"
           after == IF special THEN DropSlashes(rest) ELSE SubSeq(rest, 3, Len(rest))
           auth == UpToSlash(after)
           path == SubSeq(after, Len(auth) + 1, Len(after))
       IN  IF special \/ slashes
           THEN IF ValidAuthority(auth, ~special)
                THEN URL(scheme \o ":", auth,
                         IF special /\ path = <<>> THEN <<"/">> ELSE path)
                ELSE InvalidURL
           ELSE URL(scheme \o ":", <<>>, rest)

\* pathname.split('/').filter(Boolean): the non-empty runs between slashes.
RECURSIVE SplitPath(_, _)
SplitPath(toks, cur) ==
  IF toks = <<>> THEN (IF cur = "" THEN <<>> ELSE <<cur>>)
  ELSE IF Head(toks) = "/"
       THEN (IF cur = "" THEN <<>> ELSE <<cur>>) \o SplitPath(Tail(toks), "")
       ELSE SplitPath(Tail(toks), cur \o Head(toks))

\* parts[i] of a JavaScript array of strings (undefined past its end).
At(parts, i) == IF i < Len(parts) THEN Str(parts[i + 1]) ELSE Undef

\* A JavaScript string holding a URI, and one built by a template literal.
Uri(toks) == [t |-> "uri", v |-> toks]
Template(parts) == [t |-> "template", v |-> parts]

\* `spaceship://domains/${name}`
DomainUri(name) == <<"spaceship", ":", "/", "/", "domains", "/", name>>

(***************************************************************************)
(* Errors.                                                                 *)
(***************************************************************************)
McpError(code, message) == [t |-> "McpError", code |-> code, message |-> message]
TypeError(message) == [t |-> "TypeError", message |-> message]
AxiosError(response, message) ==
  [t |-> "AxiosError", response |-> response, message |-> Str(message)]
isAxiosError(error) == error.t = "AxiosError"

(***************************************************************************)
(* SpaceshipClient: each method issues one HTTP request through the axios  *)
(* instance, awaits it, and unpacks the response or maps the failure.      *)
(***************************************************************************)
HttpRequest(method, url, params, data) ==
  [method |-> method, url |-> url, params |-> params, data |-> data]

\* A call of a gateway method: its name, its arguments and the HTTP request
\* it sends.
GatewayCall(op, args, http) == [op |-> op, args |-> args, http |-> http]

\* getDomains(take = 10, skip = 0): a default replaces undefined only.
getDomains(take, skip) ==
  LET t == IF take.t = "undefined" THEN Num(10) ELSE take
      k == IF skip.t = "undefined" THEN Num(0) ELSE skip
  IN  GatewayCall("getDomains", <<take, skip>>,
        HttpRequest("GET", <<"/", "domains">>,
                    Obj(<<Prop("take", t), Prop("skip", k)>>), Undef))

checkDomainAvailability(domain) ==
  GatewayCall("checkDomainAvailability", <<domain>>,
    HttpRequest("GET", <<"/", "domains", "/", "availability", "/", String(domain)>>,
                Undef, Undef))

getDomainInfo(domain) ==
  GatewayCall("getDomainInfo", <<domain>>,
    HttpRequest("GET", <<"/", "domains", "/", String(domain)>>, Undef, Undef))

registerDomain(domain, contactId) ==
  GatewayCall("registerDomain", <<domain, contactId>>,
    HttpRequest("POST", <<"/", "domains">>, Undef,
                Obj(<<Prop("domain", domain), Prop("contactId", contactId)>>)))

getDnsRecords(domain) ==
  GatewayCall("getDnsRecords", <<domain>>,
    HttpRequest("GET", <<"/", "domains", "/", String(domain), "/", "dns">>,
                Undef, Undef))

getContact(contactId) ==
  GatewayCall("getContact", <<contactId>>,
    HttpRequest("GET", <<"/", "contacts", "/", String(contactId)>>, Undef, Undef))

getAsyncOperation(operationId) ==
  GatewayCall("getAsyncOperation", <<operationId>>,
    HttpRequest("GET", <<"/", "operations", "/", String(operationId)>>, Undef, Undef))

\* What the awaited axios call settles with: a response carrying the parsed
\* body, or a rejection with an AxiosError.
Response(data) == [settled |-> "response", data |-> data]
Rejection(error) == [settled |-> "rejection", error |-> error]

\* How a gateway method or a handler's try block ends.
Returned(value) == [threw |-> FALSE, value |-> value]
Thrown(error) == [threw |-> TRUE, error |-> error]

\* ApiErrorMessage without the upstream-supplied message.
ApiErrorMessageTransportOnly(error) ==
  <<"Spaceship API error: ", String(error.message)>>

\* `Spaceship API error: ${error.response?.data?.message || error.message}`
ApiErrorMessage(error) ==
  <<"Spaceship API error: ",
    String(OrElse(OptGet(OptGet(error.response, "data"), "message"),
                  error.message))>>

\* The catch block every gateway method has.
GatewayCatch(error) ==
  IF isAxiosError(error) THEN McpError("InternalError", ApiErrorMessage(error))
  ELSE error

\* response.data.<key>: reading a property of null or undefined throws.
ReadProperty(data, key) ==
  IF Nullish(data)
  THEN Thrown(TypeError(<<"Cannot read properties of ", String(data),
                          " (reading '", key, "')">>))
  ELSE Returned(Get(data, key))

\* The rest of a gateway method once its HTTP request has settled.
GatewayUnpack(op, reply) ==
  IF reply.settled = "rejection" THEN Thrown(GatewayCatch(reply.error))
  ELSE IF op \in {"getDomains", "getDnsRecords"}
       THEN LET got == ReadProperty(reply.data,
                         IF op = "getDomains" THEN "domains" ELSE "records")
            IN  IF got.threw THEN Thrown(GatewayCatch(got.error)) ELSE got
       ELSE Returned(reply.data)

(***************************************************************************)
(* What the host sends and what the upstream API answers.                  *)
(***************************************************************************)
ReqIds == {"r1", "r2"}

DomainNames == {"example.com", "a.io", "b.dev"}

Domain(name) ==
  Obj(<<Prop("id", Str("id-" \o name)), Prop("name", Str(name)),
        Prop("status", Str("active")), Prop("expiresAt", Str("2026-01-01")),
        Prop("autoRenew", Bool(TRUE))>>)

DnsRecord ==
  Obj(<<Prop("id", Str("rec1")), Prop("type", Str("A")), Prop("name", Str("@")),
        Prop("content", Str("192.0.2.1")), Prop("ttl", Num(3600))>>)

Contact ==
  Obj(<<Prop("id", Str("c1")), Prop("firstName", Str("Ada")),
        Prop("address", Obj(<<Prop("city", Str("London")),
                              Prop("country", Str("GB"))>>))>>)

\* Sequences of at most n distinct domain names (a listing repeats no name).
RECURSIVE NameLists(_)
NameLists(n) ==
  IF n = 0 THEN {<<>>}
  ELSE LET shorter == NameLists(n - 1)
       IN  shorter \cup {Append(l, d) : l \in shorter, d \in DomainNames}
DistinctNameLists ==
  {l \in NameLists(MaxDomains) : \A i, j \in 1..Len(l) : l[i] = l[j] => i = j}

DomainList(names) == Arr([i \in 1..Len(names) |-> Domain(names[i])])

\* Bodies of 2xx responses, as axios parses them: what the endpoints
\* return, and bodies that lack what the gateway reads.
Bodies ==
  {Obj(<<Prop("domains", DomainList(l))>>) : l \in DistinctNameLists}
    \cup {Domain(d) : d \in DomainNames}
    \cup {Obj(<<Prop("available", Bool(TRUE)), Prop("price", Num(12))>>),
          Obj(<<Prop("available", Bool(FALSE))>>),
          Obj(<<Prop("operationId", Str("op1"))>>),
          Obj(<<Prop("records", Arr(<<DnsRecord>>))>>),
          Obj(<<Prop("records", Arr(<<>>))>>),
          Contact,
          Obj(<<Prop("status", Str("completed")), Prop("result", Null)>>),
          Obj(<<>>), Null, Str("")}

\* Bodies of error responses.
ErrorBodies ==
  {Obj(<<Prop("message", Str("Domain not found"))>>),
   Obj(<<Prop("message", Str(""))>>), Obj(<<>>), Null, Str("")}

Rejections ==
  {AxiosError(Undef, "Network Error")}
    \cup {AxiosError(Obj(<<Prop("data", b)>>), "Request failed with status code 404")
            : b \in ErrorBodies}

Replies == {Response(b) : b \in Bodies} \cup {Rejection(e) : e \in Rejections}

\* Resource URIs a host may ask for: a prefix, then path words joined by "/",
\* then perhaps a trailing "/".
UriPrefixes ==
  {<<>>, <<"/">>, <<"443", ":">>, <<"http", ":">>, <<"http", ":", "/", "/">>,
   <<"domains", ":", "/", "/">>,
   <<"spaceship", ":">>, <<"spaceship", ":", "/">>, <<"spaceship", ":", "/", "/">>,
   <<"spaceship", ":", "/", "/", "/">>, <<"SPACESHIP", ":", "/">>,
   <<"spaceship", ":", "/", "/", "a.io", ":">>,
   <<"spaceship", ":", "/", "/", "a.io", ":", "443", "/">>}

PathWords == {"domains", "example.com", "a.io"}

RECURSIVE WordLists(_)
WordLists(n) ==
  IF n = 0 THEN {<<>>}
  ELSE LET shorter == WordLists(n - 1)
       IN  shorter \cup {Append(l, w) : l \in shorter, w \in PathWords}

RECURSIVE JoinPath(_)
JoinPath(words) ==
  IF Len(words) <= 1 THEN words
  ELSE <<Head(words), "/">> \o JoinPath(Tail(words))

HostUris ==
  {p \o JoinPath(w) \o t : p \in UriPrefixes, w \in WordLists(MaxSegs),
                           t \in {<<>>, <<"/">>}}

\* Argument bags: request.params.arguments is undefined or an object.
Bag(props) == Obj(Defined(props))

PageValues == {Undef, Str("abc"), Str("1")} \cup {Num(n) : n \in 0..MaxPage}

StringValues(sample) == {Undef, Null, Str(""), Str(sample)}

PageBags ==
  {Undef} \cup {Bag(<<Prop("take", t), Prop("skip", k)>>)
                  : t \in PageValues, k \in PageValues}

OneStringBags(key, sample) ==
  {Undef} \cup {Bag(<<Prop(key, v)>>) : v \in StringValues(sample)}

RegisterBags ==
  {Undef} \cup {Bag(<<Prop("domain", d), Prop("contactId", c)>>)
                  : d \in StringValues("example.com"), c \in StringValues("c1")}

\* Tool names a host may ask for that are not in the catalog.
OtherNames == {"update_dns_records", "getDomains", ""}

(***************************************************************************)
(* The server.  Each request the host sends is handled by one run of its   *)
(* handler; the only point where a handler is suspended is the await of    *)
(* its gateway call.                                                       *)
(***************************************************************************)
VARIABLES
  pc,         \* pc[r]: "idle" (not sent yet), "await" (suspended), "done"
  request,    \* request[r]: the request the host sent
  sent,       \* sent[r]: the gateway calls made for r, in order
  received,   \* received[r]: what those calls settled with, in order
  responses,  \* responses[r]: the responses returned to the host for r
  log,        \* log[r]: the console.error lines written while handling r
  overlap     \* overlap[r]: history, the requests that were suspended at
              \* their gateway calls when the call of r settled

vars == <<pc, request, sent, received, responses, log, overlap>>

NoRequest == [method |-> "none"]

Init ==
  /\ pc = [r \in ReqIds |-> "idle"]
  /\ request = [r \in ReqIds |-> NoRequest]
  /\ sent = [r \in ReqIds |-> <<>>]
  /\ received = [r \in ReqIds |-> <<>>]
  /\ responses = [r \in ReqIds |-> <<>>]
  /\ log = [r \in ReqIds |-> <<>>]
  /\ overlap = [r \in ReqIds |-> {}]

Result(value) == [kind |-> "result", result |-> value]
Failure(error) == [kind |-> "error", error |-> error]
LogLine(text, error) == [text |-> text, error |-> error]

\* The handler of r runs up to the await of a gateway call.
Suspend(r, req, call) ==
  /\ pc[r] = "idle"
  /\ pc' = [pc EXCEPT ![r] = "await"]
  /\ request' = [request EXCEPT ![r] = req]
  /\ sent' = [sent EXCEPT ![r] = Append(@, call)]
  /\ UNCHANGED <<received, responses, log, overlap>>

\* The handler of r runs to its end without a gateway call.
Complete(r, req, response) ==
  /\ pc[r] = "idle"
  /\ pc' = [pc EXCEPT ![r] = "done"]
  /\ request' = [request EXCEPT ![r] = req]
  /\ responses' = [responses EXCEPT ![r] = Append(@, response)]
  /\ UNCHANGED <<sent, received, log, overlap>>

\* The awaited call of r settles with reply and the handler runs to its end.
Resume(r, reply, response, lines) ==
  /\ pc[r] = "await"
  /\ pc' = [pc EXCEPT ![r] = "done"]
  /\ received' = [received EXCEPT ![r] = Append(@, reply)]
  /\ responses' = [responses EXCEPT ![r] = Append(@, response)]
  /\ log' = [log EXCEPT ![r] = @ \o lines]
  /\ overlap' = [overlap EXCEPT ![r] = {q \in ReqIds \ {r} : pc[q] = "await"}]
  /\ UNCHANGED <<request, sent>>

\* The gateway call r is suspended at, and how it ends on reply.
Pending(r) == sent[r][Len(sent[r])]

\* Outcome with the call in flight kept in one place for all requests: the
\* call of another suspended request stands in for the call of r.
OutcomeOfSharedCall(r, reply) ==
  LET others == {q \in ReqIds \ {r} : pc[q] = "await"}
  IN  IF others = {} THEN GatewayUnpack(Pending(r).op, reply)
      ELSE GatewayUnpack(Pending(CHOOSE q \in others : TRUE).op, reply)

Outcome(r, reply) == GatewayUnpack(Pending(r).op, reply)

(***************************************************************************)
(* list-resources                                                          *)
(***************************************************************************)
ResourceDescriptor(domain) ==
  Obj(<<Prop("uri", Uri(DomainUri(String(Get(domain, "name"))))),
        Prop("mimeType", Str("application/json")),
        Prop("name", Get(domain, "name")),
        Prop("description",
             Template(<<"Domain: ", String(Get(domain, "name")),
                        " (Status: ", String(Get(domain, "status")),
                        ", Expires: ", String(Get(domain, "expiresAt")), ")">>))>>)

\* domains.map(domain => ...): throws when domains is no array or an element
\* is null or undefined.
MapResources(domains) ==
  IF domains.t # "array"
  THEN Thrown(TypeError(<<"domains.map is not a function">>))
  ELSE IF \E i \in 1..Len(domains.v) : Nullish(domains.v[i])
       THEN Thrown(TypeError(<<"Cannot read properties of null (reading 'name')">>))
       ELSE Returned(Arr([i \in 1..Len(domains.v) |-> ResourceDescriptor(domains.v[i])]))

\* The try block of the handler, from the settled getDomains() on.
ListResourcesTry(got) ==
  IF got.threw THEN got
  ELSE LET mapped == MapResources(got.value)
       IN  IF mapped.threw THEN mapped
           ELSE Returned(Obj(<<Prop("resources", mapped.value)>>))

\* ListResourcesCatch passing the error on.
ListResourcesRethrow(error) == Failure(error)

\* The handler's catch block: log and answer with an empty list.
ListResourcesCatch(error) == Result(Obj(<<Prop("resources", Arr(<<>>))>>))

ListResources(r) ==
  /\ pc[r] = "idle"
  /\ Suspend(r, [method |-> "resources/list"], getDomains(Undef, Undef))

ListResourcesResume(r, inputs) ==
  /\ pc[r] = "await"
  /\ request[r].method = "resources/list"
  /\ \E reply \in inputs.replies :
       LET tried == ListResourcesTry(Outcome(r, reply))
       IN  IF tried.threw
           THEN Resume(r, reply, ListResourcesCatch(tried.error),
                       <<LogLine(<<"Error listing domains:">>, tried.error)>>)
           ELSE Resume(r, reply, Result(tried.value), <<>>)

(***************************************************************************)
(* read-resource                                                           *)
(***************************************************************************)
ReadRequest(uri) == [method |-> "resources/read", uri |-> uri]

\* ReadResourceCatch passing the gateway's error on.
ReadResourceRethrow(domainName, error) == Failure(error)

\* The handler's catch block around getDomainInfo.
ReadResourceCatch(domainName, error) ==
  Failure(McpError("InvalidRequest", <<"Domain ", String(domainName), " not found">>))

ReadResourceContents(uri, domainInfo) ==
  Obj(<<Prop("contents",
             Arr(<<Obj(<<Prop("uri", Uri(uri)),
                         Prop("mimeType", Str("application/json")),
                         Prop("text", JSONstringify(domainInfo))>>)>>))>>)

\* The URIs the handler takes to its getDomainInfo call.
IsDomainResource(url) ==
  /\ url.protocol = "spaceship:"
  /\ At(SplitPath(url.pathname, ""), 0) = Str("domains")

ReadResource(r, inputs) ==
  /\ pc[r] = "idle"
  /\ \E uri \in inputs.uris :
       LET url == ParseURL(uri)
           pathParts == SplitPath(url.pathname, "")
       IN  IF ~url.ok
           THEN Complete(r, ReadRequest(uri), Failure(TypeError(<<"Invalid URL">>)))
           ELSE IF IsDomainResource(url)
                THEN Suspend(r, ReadRequest(uri), getDomainInfo(At(pathParts, 1)))
                ELSE Complete(r, ReadRequest(uri),
                       Failure(McpError("InvalidRequest",
                                        <<"Unsupported resource URI: ">> \o uri)))

ReadResourceResume(r, inputs) ==
  /\ pc[r] = "await"
  /\ request[r].method = "resources/read"
  /\ \E reply \in inputs.replies :
       LET got == Outcome(r, reply)
           domainName == Pending(r).args[1]
       IN  IF got.threw
           THEN Resume(r, reply, ReadResourceCatch(domainName, got.error),
                       <<LogLine(<<"Error fetching domain info for ",
                                   String(domainName), ":">>, got.error)>>)
           ELSE Resume(r, reply,
                       Result(ReadResourceContents(request[r].uri, got.value)), <<>>)

(***************************************************************************)
(* list-tools                                                              *)
(***************************************************************************)
Tool(name, properties, required) ==
  [name |-> name, properties |-> properties, required |-> required]

ToolCatalog ==
  <<Tool("get_domains", <<"take", "skip">>, <<>>),
    Tool("check_domain_availability", <<"domain">>, <<"domain">>),
    Tool("get_domain_info", <<"domain">>, <<"domain">>),
    Tool("register_domain", <<"domain", "contactId">>, <<"domain", "contactId">>),
    Tool("get_dns_records", <<"domain">>, <<"domain">>),
    Tool("get_contact", <<"contactId">>, <<"contactId">>),
    Tool("get_async_operation", <<"operationId">>, <<"operationId">>)>>

ListTools(r) ==
  /\ pc[r] = "idle"
  /\ Complete(r, [method |-> "tools/list"], Result([tools |-> ToolCatalog]))

(***************************************************************************)
(* call-tool                                                               *)
(***************************************************************************)
CallRequest(name, arguments) ==
  [method |-> "tools/call", name |-> name, arguments |-> arguments]

\* Number(request.params.arguments?.<key>) || fallback
PageArgument(arguments, key, fallback) ==
  OrElse(Number(OptGet(arguments, key)), Num(fallback))

\* String(request.params.arguments?.<key>)
StringArgument(arguments, key) == Str(String(OptGet(arguments, key)))

InvalidParams(message) == Failure(McpError("InvalidParams", <<message>>))

\* The content a tool returns for the result of its gateway call.
ToolContent(value) ==
  Obj(<<Prop("content",
             Arr(<<Obj(<<Prop("type", Str("text")),
                         Prop("text", JSONstringify(value))>>)>>))>>)

\* The catch block of every tool: log and throw the error again.
CallToolCatch(error) == Failure(error)

CallGetDomains(r, inputs) ==
  /\ pc[r] = "idle"
  /\ \E arguments \in inputs.pageBags :
       LET take == PageArgument(arguments, "take", 10)
           skip == PageArgument(arguments, "skip", 0)
       IN  Suspend(r, CallRequest("get_domains", arguments), getDomains(take, skip))

CallCheckDomainAvailability(r, inputs) ==
  /\ pc[r] = "idle"
  /\ \E arguments \in inputs.domainBags :
       LET domain == StringArgument(arguments, "domain")
           req == CallRequest("check_domain_availability", arguments)
       IN  IF ~Truthy(domain)
           THEN Complete(r, req, InvalidParams("Domain name is required"))
           ELSE Suspend(r, req, checkDomainAvailability(domain))

CallGetDomainInfo(r, inputs) ==
  /\ pc[r] = "idle"
  /\ \E arguments \in inputs.domainBags :
       LET domain == StringArgument(arguments, "domain")
           req == CallRequest("get_domain_info", arguments)
       IN  IF ~Truthy(domain)
           THEN Complete(r, req, InvalidParams("Domain name is required"))
           ELSE Suspend(r, req, getDomainInfo(domain))

CallRegisterDomain(r, inputs) ==
  /\ pc[r] = "idle"
  /\ \E arguments \in inputs.registerBags :
       LET domain == StringArgument(arguments, "domain")
           contactId == StringArgument(arguments, "contactId")
           req == CallRequest("register_domain", arguments)
       IN  IF ~Truthy(domain) \/ ~Truthy(contactId)
           THEN Complete(r, req, InvalidParams("Domain name and contact ID are required"))
           ELSE Suspend(r, req, registerDomain(domain, contactId))

CallGetDnsRecords(r, inputs) ==
  /\ pc[r] = "idle"
  /\ \E arguments \in inputs.domainBags :
       LET domain == StringArgument(arguments, "domain")
           req == CallRequest("get_dns_records", arguments)
       IN  IF ~Truthy(domain)
           THEN Complete(r, req, InvalidParams("Domain name is required"))
           ELSE Suspend(r, req, getDnsRecords(domain))

CallGetContact(r, inputs) ==
  /\ pc[r] = "idle"
  /\ \E arguments \in inputs.contactBags :
       LET contactId == StringArgument(arguments, "contactId")
           req == CallRequest("get_contact", arguments)
       IN  IF ~Truthy(contactId)
           THEN Complete(r, req, InvalidParams("Contact ID is required"))
           ELSE Suspend(r, req, getContact(contactId))

CallGetAsyncOperation(r, inputs) ==
  /\ pc[r] = "idle"
  /\ \E arguments \in inputs.operationBags :
       LET operationId == StringArgument(arguments, "operationId")
           req == CallRequest("get_async_operation", arguments)
       IN  IF ~Truthy(operationId)
           THEN Complete(r, req, InvalidParams("Operation ID is required"))
           ELSE Suspend(r, req, getAsyncOperation(operationId))

\* The case labels of the switch on request.params.name.
SwitchCases ==
  {"get_domains", "check_domain_availability", "get_domain_info",
   "register_domain", "get_dns_records", "get_contact", "get_async_operation"}

\* UnknownTool with a message that does not name the tool.
UnknownToolUnnamed(name) == Failure(McpError("MethodNotFound", <<"Unknown tool">>))

UnknownTool(name) == Failure(McpError("MethodNotFound", <<"Unknown tool: ", name>>))

\* The default case of the switch.
CallUnknownTool(r, inputs) ==
  /\ pc[r] = "idle"
  /\ \E name \in inputs.otherNames \ SwitchCases, arguments \in {Undef, Obj(<<>>)} :
       Complete(r, CallRequest(name, arguments), UnknownTool(name))

\* What each tool's catch block writes before the error.
CallToolLogText(call) ==
  CASE call.op = "getDomains" -> <<"Error getting domains:">>
    [] call.op = "checkDomainAvailability" ->
         <<"Error checking availability for ", call.args[1].v, ":">>
    [] call.op = "getDomainInfo" -> <<"Error getting info for ", call.args[1].v, ":">>
    [] call.op = "registerDomain" -> <<"Error registering domain ", call.args[1].v, ":">>
    [] call.op = "getDnsRecords" ->
         <<"Error getting DNS records for ", call.args[1].v, ":">>
    [] call.op = "getContact" -> <<"Error getting contact ", call.args[1].v, ":">>
    [] OTHER -> <<"Error getting operation ", call.args[1].v, ":">>

\* CallToolResume calling the gateway a second time when the first call fails.
CallToolResumeRetry(r, inputs) ==
  /\ pc[r] = "await"
  /\ request[r].method = "tools/call"
  /\ \E reply \in inputs.replies :
       LET got == Outcome(r, reply)
       IN  IF got.threw /\ Len(sent[r]) = 1
           THEN /\ received' = [received EXCEPT ![r] = Append(@, reply)]
                /\ sent' = [sent EXCEPT ![r] = Append(@, Pending(r))]
                /\ UNCHANGED <<pc, request, responses, log, overlap>>
           ELSE IF got.threw
                THEN Resume(r, reply, CallToolCatch(got.error),
                            <<LogLine(CallToolLogText(Pending(r)), got.error)>>)
                ELSE Resume(r, reply, Result(ToolContent(got.value)), <<>>)

\* Every tool's try block from its settled gateway call on.
CallToolResume(r, inputs) ==
  /\ pc[r] = "await"
  /\ request[r].method = "tools/call"
  /\ \E reply \in inputs.replies :
       LET got == Outcome(r, reply)
       IN  IF got.threw
           THEN Resume(r, reply, CallToolCatch(got.error),
                       <<LogLine(CallToolLogText(Pending(r)), got.error)>>)
           ELSE Resume(r, reply, Result(ToolContent(got.value)), <<>>)

\* One step of the handling of request r, the host and the upstream API
\* choosing among inputs.
Handle(r, inputs) ==
  \/ ListResources(r)
  \/ ListResourcesResume(r, inputs)
  \/ ReadResource(r, inputs)
  \/ ReadResourceResume(r, inputs)
  \/ ListTools(r)
  \/ CallGetDomains(r, inputs)
  \/ CallCheckDomainAvailability(r, inputs)
  \/ CallGetDomainInfo(r, inputs)
  \/ CallRegisterDomain(r, inputs)
  \/ CallGetDnsRecords(r, inputs)
  \/ CallGetContact(r, inputs)
  \/ CallGetAsyncOperation(r, inputs)
  \/ CallUnknownTool(r, inputs)
  \/ CallToolResume(r, inputs)

AllInputs ==
  [uris |-> HostUris, replies |-> Replies, pageBags |-> PageBags,
   domainBags |-> OneStringBags("domain", "example.com"),
   contactBags |-> OneStringBags("contactId", "c1"),
   operationBags |-> OneStringBags("operationId", "op1"),
   registerBags |-> RegisterBags, otherNames |-> OtherNames]

\* The host sends one request, with any of the inputs of the model.  The
\* handlers share no variable: request r reads and writes only the r-th
\* component of each, so the other request stays as Init left it.
Next == Handle("r1", AllInputs)

Spec == Init /\ [][Next]_vars

\* Inputs for two requests in flight together: a few of each kind.
FewReplies ==
  {Response(Domain("example.com")),
   Response(Obj(<<Prop("domains", DomainList(<<"example.com", "a.io">>))>>)),
   Response(Null),
   Rejection(AxiosError(Undef, "Network Error")),
   Rejection(AxiosError(Obj(<<Prop("data", Obj(<<Prop("message", Str("Domain not found"))>>))>>),
                        "Request failed with status code 404"))}

FewInputs ==
  [uris |-> {<<"spaceship", ":", "/", "domains", "/", "example.com">>,
             DomainUri("example.com"), <<"example.com">>},
   replies |-> FewReplies,
   pageBags |-> {Undef, Bag(<<Prop("take", Num(0)), Prop("skip", Num(1))>>)},
   domainBags |-> {Bag(<<Prop("domain", Str(""))>>),
                   Bag(<<Prop("domain", Str("example.com"))>>)},
   contactBags |-> {Bag(<<Prop("contactId", Str(""))>>),
                    Bag(<<Prop("contactId", Str("c1"))>>)},
   operationBags |-> {Bag(<<Prop("operationId", Str(""))>>),
                      Bag(<<Prop("operationId", Str("op1"))>>)},
   registerBags |-> {Bag(<<Prop("domain", Str("example.com"))>>),
                     Bag(<<Prop("domain", Str("example.com")),
                           Prop("contactId", Str("c1"))>>)},
   otherNames |-> {"update_dns_records"}]

\* The host sends the requests of ReqIds in any order and the upstream API
\* settles their calls in any order: a request may be sent, and a call may
\* settle, while other requests are suspended.
NextConcurrent == \E r \in ReqIds : Handle(r, FewInputs)

SpecConcurrent == Init /\ [][NextConcurrent]_vars

(***************************************************************************)
(* Properties.                                                             *)
(***************************************************************************)
IsBlank(tok) == tok.k \in {"newline", "space"}

RECURSIVE Skip(_, _)
Skip(toks, i) ==
  IF i <= Len(toks) /\ IsBlank(toks[i]) THEN Skip(toks, i + 1) ELSE i

ParseFail == [ok |-> FALSE, val |-> Undef, next |-> 0]
Parsed(val, next) == [ok |-> TRUE, val |-> val, next |-> next]
IsPunct(toks, i, s) == i <= Len(toks) /\ toks[i] = Punct(s)

RECURSIVE ParseValue(_, _), ParseElems(_, _, _), ParseMembers(_, _, _)
ParseValue(toks, at) ==
  LET i == Skip(toks, at) IN
  IF i > Len(toks) THEN ParseFail
  ELSE LET tok == toks[i] IN
       CASE tok.k = "literal" ->
              Parsed(CASE tok.s = "null" -> Null
                       [] tok.s = "true" -> Bool(TRUE)
                       [] OTHER -> Bool(FALSE), i + 1)
         [] tok.k = "number" -> Parsed(Num(tok.n), i + 1)
         [] tok.k = "string" -> Parsed(Str(tok.s), i + 1)
         [] tok = Punct("[") ->
              IF IsPunct(toks, Skip(toks, i + 1), "]")
              THEN Parsed(Arr(<<>>), Skip(toks, i + 1) + 1)
              ELSE ParseElems(toks, i + 1, <<>>)
         [] tok = Punct("{") ->
              IF IsPunct(toks, Skip(toks, i + 1), "}")
              THEN Parsed(Obj(<<>>), Skip(toks, i + 1) + 1)
              ELSE ParseMembers(toks, i + 1, <<>>)
         [] OTHER -> ParseFail

ParseElems(toks, at, acc) ==
  LET e == ParseValue(toks, at) IN
  IF ~e.ok THEN ParseFail
  ELSE LET j == Skip(toks, e.next) IN
       IF IsPunct(toks, j, ",") THEN ParseElems(toks, j + 1, Append(acc, e.val))
       ELSE IF IsPunct(toks, j, "]") THEN Parsed(Arr(Append(acc, e.val)), j + 1)
       ELSE ParseFail

ParseMembers(toks, at, acc) ==
  LET i == Skip(toks, at)
      c == Skip(toks, i + 1) IN
  IF ~(i <= Len(toks) /\ toks[i].k = "string" /\ IsPunct(toks, c, ":"))
  THEN ParseFail
  ELSE LET e == ParseValue(toks, c + 1) IN
       IF ~e.ok THEN ParseFail
       ELSE LET j == Skip(toks, e.next)
                more == Append(acc, Prop(toks[i].s, e.val)) IN
            IF IsPunct(toks, j, ",") THEN ParseMembers(toks, j + 1, more)
            ELSE IF IsPunct(toks, j, "}") THEN Parsed(Obj(more), j + 1)
            ELSE ParseFail

SyntaxError == [t |-> "SyntaxError"]

\* JSON.parse(text), as the reader of a response applies it: the value, or
\* SyntaxError when text is not a string of JSON text (JSON.parse(undefined)
\* throws).
JSONparse(text) ==
  IF text.t # "text" THEN SyntaxError
  ELSE LET r == ParseValue(text.v, 1) IN
       IF r.ok /\ Skip(text.v, r.next) > Len(text.v) THEN r.val ELSE SyntaxError

Sent(r) == pc[r] # "idle"
Done(r) == pc[r] = "done"
TheResponse(r) == responses[r][1]
IsToolCall(r, name) == request[r].method = "tools/call" /\ request[r].name = name
CatalogNames == {ToolCatalog[i].name : i \in 1..Len(ToolCatalog)}
CatalogEntry(name) == ToolCatalog[CHOOSE i \in 1..Len(ToolCatalog) : ToolCatalog[i].name = name]
FailedWith(r, code) ==
  /\ Done(r)
  /\ Len(responses[r]) = 1
  /\ TheResponse(r).kind = "error"
  /\ TheResponse(r).error.t = "McpError"
  /\ TheResponse(r).error.code = code

\* A required argument that is absent from the bag or is the empty string.
MissingArgument(arguments, key) ==
  OptGet(arguments, key).t = "undefined" \/ OptGet(arguments, key) = Str("")

\* C1: a call of a tool with required arguments in which a required
\* argument is absent or the empty string fails with InvalidParams and makes
\* no gateway call.
C1_MissingArgumentRejected ==
  \A r \in ReqIds :
    (/\ Sent(r)
     /\ request[r].method = "tools/call"
     /\ request[r].name \in CatalogNames
     /\ \E i \in 1..Len(CatalogEntry(request[r].name).required) :
          MissingArgument(request[r].arguments,
                          CatalogEntry(request[r].name).required[i]))
      => FailedWith(r, "InvalidParams") /\ sent[r] = <<>>

\* The only content block of a result under key, or undefined when the
\* result does not hold exactly one block there.
OnlyBlock(result, key) ==
  IF result.t = "object" /\ Get(result, key).t = "array" /\ Len(Get(result, key).v) = 1
  THEN Get(result, key).v[1]
  ELSE Undef

\* C2: a read of spaceship://domains/n, the URI list-resources emits, calls
\* getDomainInfo(n), and when that returns the Domain D the response is one
\* text block whose parsed content is D.
C2_ReadRoundTrip ==
  \A r \in ReqIds : \A n \in DomainNames :
    (Sent(r) /\ request[r] = ReadRequest(DomainUri(n)))
      => /\ Len(sent[r]) = 1
         /\ sent[r][1].op = "getDomainInfo"
         /\ sent[r][1].args = <<Str(n)>>
         /\ (Done(r) /\ received[r] = <<Response(Domain(n))>>)
              => /\ TheResponse(r).kind = "result"
                 /\ JSONparse(OptGet(OnlyBlock(TheResponse(r).result, "contents"),
                                     "text")) = Domain(n)

\* spaceship://domains/<name> with one non-empty name segment.
IsDocumentedUri(uri) ==
  /\ Len(uri) = 7
  /\ SubSeq(uri, 1, 6) = <<"spaceship", ":", "/", "/", "domains", "/">>
  /\ uri[7] \notin {":", "/"}

\* C3: a read of a URI that is not spaceship://domains/<name> fails with
\* InvalidRequest and makes no gateway call.
C3_OtherUriRejected ==
  \A r \in ReqIds :
    (/\ Sent(r)
     /\ request[r].method = "resources/read"
     /\ ~IsDocumentedUri(request[r].uri))
      => FailedWith(r, "InvalidRequest") /\ sent[r] = <<>>

\* A take or skip argument C4 covers: omitted, or an integer >= 0.
IsPageArgument(x) == x.t = "undefined" \/ (x.t = "number" /\ x.v >= 0)
PageOr(x, default) == IF x.t = "undefined" THEN Num(default) ELSE x

\* C4: a get_domains call with take and skip omitted or integers >= 0 sends
\* one upstream request whose query carries those values, 10 for an omitted
\* take and 0 for an omitted skip.
C4_PagingForwarded ==
  \A r \in ReqIds :
    (/\ Sent(r)
     /\ IsToolCall(r, "get_domains")
     /\ IsPageArgument(OptGet(request[r].arguments, "take"))
     /\ IsPageArgument(OptGet(request[r].arguments, "skip")))
      => /\ Len(sent[r]) = 1
         /\ sent[r][1].http.params =
              Obj(<<Prop("take", PageOr(OptGet(request[r].arguments, "take"), 10)),
                    Prop("skip", PageOr(OptGet(request[r].arguments, "skip"), 0))>>)

\* The gateway call of r was rejected by axios (an error response of the
\* upstream API or a network failure).
Rejected(r) ==
  Done(r) /\ Len(received[r]) = 1 /\ received[r][1].settled = "rejection"

\* The gateway call of r got a response whose body the gateway method
\* cannot unpack.
UnpackFailed(r) ==
  /\ Done(r) /\ Len(received[r]) = 1 /\ received[r][1].settled = "response"
  /\ sent[r][1].op \in {"getDomains", "getDnsRecords"}
  /\ Nullish(received[r][1].data)

\* The message of the upstream API when its error body has a non-empty one,
\* else the message of the transport.
UpstreamMessage(error) ==
  LET m == OptGet(OptGet(error.response, "data"), "message")
  IN  IF m.t = "string" /\ m.v # "" THEN m.v ELSE error.message.v

UpstreamError(error) ==
  Failure(McpError("InternalError", <<"Spaceship API error: ", UpstreamMessage(error)>>))

C6_ListingNeverFails ==
  \A r \in ReqIds :
    (Done(r) /\ request[r].method = "resources/list")
      => /\ Len(responses[r]) = 1
         /\ TheResponse(r).kind = "result"
         /\ (Rejected(r) \/ UnpackFailed(r))
              => TheResponse(r).result = Obj(<<Prop("resources", Arr(<<>>))>>)
         /\ \A l \in DistinctNameLists :
              received[r] = <<Response(Obj(<<Prop("domains", DomainList(l))>>))>>
                => LET resources == Get(TheResponse(r).result, "resources")
                   IN  /\ resources.t = "array"
                       /\ Len(resources.v) = Len(l)
                       /\ \A i \in 1..Len(l) :
                            Get(resources.v[i], "uri") = Uri(DomainUri(l[i]))

C6_Witness ==
  \E r \in ReqIds :
    /\ request[r].method = "resources/list"
    /\ Rejected(r)
    /\ TheResponse(r) = Result(Obj(<<Prop("resources", Arr(<<>>))>>))

\* C7: a call of a tool whose name is not in the catalog fails with
\* MethodNotFound, the message holding the name, and makes no gateway call;
\* a call of a tool of the catalog never fails with MethodNotFound.
C7_UnknownToolRejected ==
  \A r \in ReqIds :
    (Sent(r) /\ request[r].method = "tools/call")
      => IF request[r].name \in CatalogNames
         THEN ~FailedWith(r, "MethodNotFound")
         ELSE /\ FailedWith(r, "MethodNotFound")
              /\ request[r].name \in Range(TheResponse(r).error.message)
              /\ sent[r] = <<>>

C7_Witness ==
  \E r \in ReqIds :
    /\ request[r].method = "tools/call"
    /\ request[r].name = "update_dns_records"
    /\ FailedWith(r, "MethodNotFound")

C9_ReadFailureIsNotFound ==
  \A r \in ReqIds :
    Rejected(r)
      => /\ request[r].method = "resources/read"
           => TheResponse(r) =
                Failure(McpError("InvalidRequest",
                          <<"Domain ", String(sent[r][1].args[1]), " not found">>))
         /\ IsToolCall(r, "get_domain_info")
           => TheResponse(r) = UpstreamError(received[r][1].error)

C9_Witness ==
  \E r \in ReqIds :
    /\ request[r].method = "resources/read"
    /\ Rejected(r)
    /\ received[r][1].error.response = Undef
    /\ FailedWith(r, "InvalidRequest")

\* C10: a request makes at most one gateway call and gets exactly one
\* response, which ends it; no call follows a call that has settled, and
\* list-tools makes none.
C10_Counts ==
  \A r \in ReqIds :
    /\ Len(sent[r]) <= 1
    /\ Len(received[r]) <= Len(sent[r])
    /\ Len(responses[r]) = (IF Done(r) THEN 1 ELSE 0)
    /\ pc[r] = "await" => Len(sent[r]) = 1 /\ received[r] = <<>>
    /\ request[r].method = "tools/list" => Done(r) /\ sent[r] = <<>>

C10_Steps ==
  \A r \in ReqIds :
    /\ received[r] # <<>> => sent'[r] = sent[r]
    /\ Done(r) => /\ sent'[r] = sent[r]
                  /\ received'[r] = received[r]
                  /\ responses'[r] = responses[r]

\* C10: in every reachable state the counts of C10_Counts hold, and every
\* step keeps the calls of a settled request and the record of a finished one.
C10_OneCallOneResponse == [](C10_Counts) /\ [][C10_Steps]_vars

C10_Witness ==
  \E r \in ReqIds :
    /\ IsToolCall(r, "register_domain")
    /\ Rejected(r)
    /\ Len(sent[r]) = 1
    /\ Len(responses[r]) = 1


(***************************************************************************)
(* Requests in flight together                                             *)
(***************************************************************************)
\* The gateway method each case of the switch on request.params.name awaits.
ToolOperation(name) ==
  CASE name = "get_domains" -> "getDomains"
    [] name = "check_domain_availability" -> "checkDomainAvailability"
    [] name = "get_domain_info" -> "getDomainInfo"
    [] name = "register_domain" -> "registerDomain"
    [] name = "get_dns_records" -> "getDnsRecords"
    [] name = "get_contact" -> "getContact"
    [] OTHER -> "getAsyncOperation"

\* The response to a request whose gateway call settled with reply, computed
\* from the request and the reply alone.
Answer(req, reply) ==
  CASE req.method = "resources/list" ->
         LET tried == ListResourcesTry(GatewayUnpack("getDomains", reply))
         IN  IF tried.threw THEN ListResourcesCatch(tried.error)
             ELSE Result(tried.value)
    [] req.method = "resources/read" ->
         LET got == GatewayUnpack("getDomainInfo", reply)
             domainName == At(SplitPath(ParseURL(req.uri).pathname, ""), 1)
         IN  IF got.threw THEN ReadResourceCatch(domainName, got.error)
             ELSE Result(ReadResourceContents(req.uri, got.value))
    [] OTHER ->
         LET got == GatewayUnpack(ToolOperation(req.name), reply)
         IN  IF got.threw THEN CallToolCatch(got.error)
             ELSE Result(ToolContent(got.value))

\* The state kept for request r.
Own(r) == <<pc[r], request[r], sent[r], received[r], responses[r]>>

C11_Function ==
  /\ \A r \in ReqIds :
       Done(r) /\ received[r] # <<>> =>
         responses[r] = <<Answer(request[r], received[r][1])>>
  /\ \A r, q \in ReqIds :
       Done(r) /\ Done(q) /\ request[r] = request[q] /\ received[r] = received[q]
         => responses[r] = responses[q]

C11_Frame ==
  \A r \in ReqIds :
    /\ Own(r)' # Own(r) => \A q \in ReqIds \ {r} : Own(q)' = Own(q)
    /\ Done(r) => responses'[r] = responses[r]

\* C11: whatever the order in which several requests are sent and their
\* upstream calls settle, the response to a request is determined by the
\* arguments of that request and the reply to its own call alone: requests
\* with the same arguments and the same reply get the same response, a step
\* of one request changes nothing of another, and a response once given is
\* not changed by what happens to other requests.
C11_RequestsAreIndependent == [](C11_Function) /\ [][C11_Frame]_vars

\* Two different requests were suspended together, the call of the one that
\* settled first failed and the call of the other then succeeded, and each
\* got the response of its own request and reply.
C11_Witness ==
  \E r, q \in ReqIds :
    /\ r # q
    /\ request[r] # request[q]
    /\ sent[r] # <<>> /\ sent[q] # <<>> /\ sent[r][1].op # sent[q][1].op
    /\ q \in overlap[r] /\ overlap[q] = {}
    /\ Rejected(r) /\ TheResponse(r).kind = "error"
    /\ Done(q) /\ received[q] # <<>> /\ received[q][1].settled = "response"
    /\ TheResponse(q).kind = "result"
    /\ TheResponse(r) = Answer(request[r], received[r][1])
    /\ TheResponse(q) = Answer(request[q], received[q][1])

====
